---- MODULE Spec2Model ----
(***************************************************************************)
(* A model of utils/api_helpers.py: the APIClient (session headers, bearer *)
(* token, the urllib3 Retry policy mounted on the session) and AuthHelper  *)
(* (login, logout).  One call of a verb method is followed transmission by *)
(* transmission: the client transmits, the server (or the network) answers,*)
(* and the retry policy decides between sending again and handing the      *)
(* outcome back to the caller.                                             *)
(*                                                                         *)
(* The retry policy is the one Retry(total=3, backoff_factor=1,            *)
(* status_forcelist=[...], method_whitelist=[...]) gives under urllib3 1.x *)
(* (the last line of releases that accepts method_whitelist), with every   *)
(* other Retry parameter at its default: raise_on_status=True,             *)
(* respect_retry_after_header=True, connect/read/status/other = None.      *)
(* Responses are final responses of the session: redirects are not         *)
(* modelled, and no caller passes a headers= keyword.                      *)
(*                                                                         *)
(* Spec follows one client, with AuthHelper, CartHelper and CheckoutHelper *)
(* on it.  The parts of the repository that do not act on that client have *)
(* specifications of their own over variables of their own:                *)
(*   SpecValidators  the static predicates of ResponseValidator,           *)
(*   SpecLoader      TestDataLoader over a file system that changes,       *)
(*   SpecSetup       one run of setup.py's main(),                         *)
(*   SpecUrl         construction and requests over base URLs and          *)
(*                   endpoints of every shape,                             *)
(*   SpecTwo         two APIClient objects side by side,                   *)
(*   SpecMask        mask_sensitive_data over mappings of every shape.     *)
(***************************************************************************)
EXTENDS Integers, Sequences, FiniteSets, TLC

VARIABLES
    base_url,     \* APIClient.base_url (a sequence of characters)
    timeout,      \* APIClient.timeout
    auth_token,   \* APIClient.auth_token
    headers,      \* APIClient.session.headers (header name -> value)
    pc,           \* "idle": between operations; "awaiting": a transmission is in flight
    call,         \* the latest operation: the one in progress, or the last one finished
    total,        \* Retry.total of the Retry object of that operation's request
    nSent,        \* transmissions it has made so far
    lastOutcome,  \* what came back for its latest completed transmission
    nForced,      \* its transmissions answered with a status of the forcelist
    result,       \* what APIClient.request handed to its caller in it
    ret,          \* what AuthHelper.login / AuthHelper.logout returned from it
    logged,       \* log records written by the latest operation, in order
    lastTokenOp,  \* the latest of set_auth_token / clear_auth_token to have run
    probe,        \* the latest call of a static utility: its arguments and outcome
    fs,           \* the file system: path -> what is found there
    env,          \* setup.py: the interpreter and platform the script runs on
    main_pc,      \* setup.py main(): "idle", "running" or "exited"
    outcomes,     \* setup.py main(): the outcome of each step run so far, in order
    failed_steps, \* setup.py main(): failed_steps
    exit_code,    \* setup.py: the exit code of the process, once main_pc = "exited"
    stdout,       \* setup.py: what has been printed
    clients,      \* several APIClient objects: name -> [auth_token, session]
    sessions,     \* the requests.Session objects they hold: identity -> headers
    acted         \* the latest operation on one of them: [instance, op]

vars == <<base_url, timeout, auth_token, headers, pc, call, total, nSent,
          lastOutcome, nForced, result, ret, logged, lastTokenOp, probe, fs,
          env, main_pc, outcomes, failed_steps, exit_code, stdout,
          clients, sessions, acted>>

client == <<base_url, timeout, auth_token, headers, lastTokenOp>>

\* the state of one client and of the operation it is running
clientVars == <<base_url, timeout, auth_token, headers, pc, call, total, nSent,
                lastOutcome, nForced, result, ret, logged, lastTokenOp>>

\* the state outside the client
\* the state of one run of setup.py
setupVars == <<env, main_pc, outcomes, failed_steps, exit_code, stdout>>

\* APIClient objects side by side
heapVars == <<clients, sessions, acted>>

side == <<probe, fs, setupVars, heapVars>>

(***************************************************************************)
(* Bounds of the model.                                                    *)
(***************************************************************************)
NumTokens == 2      \* distinct token strings a server or a caller may supply

(***************************************************************************)
(* Python values.                                                          *)
(***************************************************************************)
None == [type |-> "NoneType"]
TokenText == <<"tokA", "tokB", "tokC", "tokD">>
Str(i) == [type |-> "str", text |-> TokenText[i]]
TokenStrings == {Str(i) : i \in 1..NumTokens}
\* what a caller can pass to set_auth_token, and what a JSON `token` can hold
TokenValues == TokenStrings \cup {None}

\* f'{token}': the text a value formats to; None formats to the text "None"
Format(v) == IF v = None THEN "None" ELSE v.text

(***************************************************************************)
(* APIClient.__init__                                                      *)
(***************************************************************************)
DefaultTimeout == 30
RetryTotal == 3
\* a variant of the forcelist that also lists 401
StatusForcelist_With401 == {401, 429, 500, 502, 503, 504}
StatusForcelist == {429, 500, 502, 503, 504}
MethodWhitelist == {"HEAD", "GET", "OPTIONS", "POST", "PUT", "DELETE"}
\* urllib3 Retry.RETRY_AFTER_STATUS_CODES, consulted because
\* respect_retry_after_header is left at its default
RetryAfterStatusCodes == {413, 429, 503}

DefaultHeaders ==
    [h \in {"Content-Type", "Accept", "User-Agent"} |->
        CASE h = "Content-Type" -> <<"application/json">>
          [] h = "Accept"       -> <<"application/json">>
          [] h = "User-Agent"   -> <<"EcommerceTestSuite/1.0">>]

\* str.rstrip('/')
RECURSIVE Rstrip(_)
Rstrip(s) ==
    IF s # <<>> /\ s[Len(s)] = "/" THEN Rstrip(SubSeq(s, 1, Len(s) - 1)) ELSE s

\* base URLs the constructor is given
BaseUrlInputs == { <<"h">>, <<"h", "/">>, <<"h", "/", "/">> }
TimeoutInputs == {DefaultTimeout, 5}

(***************************************************************************)
(* The verbs, the endpoints and what the network can answer.               *)
(***************************************************************************)
Verbs == {"GET", "POST", "PUT", "DELETE", "PATCH"}
Endpoints == { <<"/", "c">> }
LoginEndpoint == <<"/", "a", "i">>      \* '/auth/login'
LogoutEndpoint == <<"/", "a", "o">>     \* '/auth/logout'

\* the statuses the server answers with in the model
Statuses == {200, 204, 401, 413} \cup StatusForcelist
\* the statuses that are sent with and without a Retry-After header
RetryAfterCarriers == {401, 413, 503}

FieldNames == {"token", "error"}
\* parsed JSON documents: an object (with a `token` value when it has the
\* field), an array of strings, or a scalar (a number, null)
JsonObjects ==
    { [kind |-> "object", names |-> S, token |-> t] :
        S \in SUBSET FieldNames, t \in TokenValues }
JsonValues ==
    { o \in JsonObjects : /\ "token" \notin o.names => o.token = None
                          /\ Cardinality(o.names) <= 1 }
    \cup { [kind |-> "array", names |-> {"token"}, token |-> None] }
    \cup { [kind |-> "scalar", names |-> {}, token |-> None] }
EmptyObject == [kind |-> "object", names |-> {}, token |-> None]

\* response bodies: no content, bytes that are not JSON, or a JSON document
Bodies ==
    { [content |-> "empty", value |-> EmptyObject],
      [content |-> "garbage", value |-> EmptyObject] }
    \cup { [content |-> "json", value |-> v] : v \in JsonValues }

NoBody == [content |-> "empty", value |-> EmptyObject]

\* the login endpoint answers with any of the bodies; the bodies of the other
\* endpoints, which the client hands back unread, are drawn from two
PlainBodies ==
    { [content |-> "empty", value |-> EmptyObject],
      [content |-> "json",
       value |-> [kind |-> "object", names |-> {"error"}, token |-> None]] }
BodiesFor(op) == IF op = "login" THEN Bodies ELSE PlainBodies

\* the outcome of one transmission
Responses ==
    { [kind |-> "response", status |-> s, retry_after |-> ra, body |-> b] :
        s \in Statuses, ra \in BOOLEAN, b \in Bodies }
    \ { r \in [kind : {"response"}, status : Statuses \ RetryAfterCarriers,
                retry_after : {TRUE}, body : Bodies] : TRUE }
ConnectError == [kind |-> "connect_error", status |-> 0, retry_after |-> FALSE, body |-> NoBody]
ReadError == [kind |-> "read_error", status |-> 0, retry_after |-> FALSE, body |-> NoBody]
Outcomes == Responses \cup {ConnectError, ReadError}
NoOutcome == [kind |-> "none", status |-> 0, retry_after |-> FALSE, body |-> NoBody]

(***************************************************************************)
(* The state after APIClient(base_url, timeout) and AuthHelper(client).    *)
(***************************************************************************)
NoJson == [kind |-> "absent"]
NoCall == [op |-> "none", method |-> "NONE", endpoint |-> <<>>, url |-> <<>>,
           timeout |-> 0, json |-> NoJson, headers |-> DefaultHeaders]
NoResult == [kind |-> "none", status |-> 0, body |-> NoBody, exc |-> "none"]
NoRet == [op |-> "none", ok |-> FALSE, data |-> EmptyObject, raised |-> FALSE]

\* no static utility has been called
NoProbe == [fn |-> "none"]

\* APIClient(b, t)
Construct(b, t) ==
    /\ base_url = Rstrip(b)
    /\ timeout = t
    /\ auth_token = None
    /\ headers = DefaultHeaders
    /\ pc = "idle"
    /\ call = NoCall
    /\ total = RetryTotal
    /\ nSent = 0
    /\ lastOutcome = NoOutcome
    /\ nForced = 0
    /\ result = NoResult
    /\ ret = NoRet
    /\ logged = <<>>
    /\ lastTokenOp = "none"

ClientInit == \E b \in BaseUrlInputs, t \in TimeoutInputs : Construct(b, t)

\* no file is looked at
NoFs == [p \in {} |-> 0]

\* setup.py is not running
NoEnv == [python_minor |-> 0, stdout_encodes |-> TRUE]
SetupIdle ==
    /\ env = NoEnv
    /\ main_pc = "idle"
    /\ outcomes = <<>>
    /\ failed_steps = <<>>
    /\ exit_code = 0
    /\ stdout = <<>>

\* no object has been constructed
NoObjects == [x \in {} |-> 0]
NoActed == [instance |-> "none", op |-> "none"]
HeapIdle ==
    /\ clients = NoObjects
    /\ sessions = NoObjects
    /\ acted = NoActed

SideInit ==
    /\ probe = NoProbe
    /\ fs = NoFs
    /\ SetupIdle
    /\ HeapIdle

Init == ClientInit /\ SideInit

(***************************************************************************)
(* APIClient.set_auth_token / clear_auth_token                             *)
(***************************************************************************)
\* a variant that leaves an Authorization header already there in place
WithAuthorization_KeepsFirst(h, t) ==
    [x \in DOMAIN h \cup {"Authorization"} |->
        IF x \in DOMAIN h THEN h[x] ELSE <<"Bearer", Format(t)>>]

\* a variant that replaces the headers of the session by the new one
WithAuthorization_Replaces(h, t) ==
    [x \in {"Authorization"} |-> <<"Bearer", Format(t)>>]

\* session.headers.update({'Authorization': f'Bearer {token}'})
WithAuthorization(h, t) ==
    [x \in DOMAIN h \cup {"Authorization"} |->
        IF x = "Authorization" THEN <<"Bearer", Format(t)>> ELSE h[x]]

\* a variant of the deletion that leaves the header in place
WithoutAuthorization_KeepsHeader(h) == h

\* if 'Authorization' in session.headers: del session.headers['Authorization']
WithoutAuthorization(h) ==
    [x \in DOMAIN h \ {"Authorization"} |-> h[x]]

\* the record of an operation that sends nothing
Local(op) ==
    /\ call' = [NoCall EXCEPT !.op = op]
    /\ total' = RetryTotal
    /\ nSent' = 0
    /\ lastOutcome' = NoOutcome
    /\ nForced' = 0
    /\ result' = NoResult
    /\ ret' = NoRet

set_auth_token(t) ==
    /\ pc = "idle"
    /\ auth_token' = t
    /\ headers' = WithAuthorization(headers, t)
    /\ logged' = <<"INFO Authentication token set">>
    /\ lastTokenOp' = "set"
    /\ Local("set_auth_token")
    /\ UNCHANGED <<base_url, timeout, pc>>
    /\ UNCHANGED side

clear_auth_token ==
    /\ pc = "idle"
    /\ auth_token' = None
    /\ headers' = WithoutAuthorization(headers)
    /\ logged' = <<"INFO Authentication token cleared">>
    /\ lastTokenOp' = "clear"
    /\ Local("clear_auth_token")
    /\ UNCHANGED <<base_url, timeout, pc>>
    /\ UNCHANGED side

(***************************************************************************)
(* APIClient.request and the verb methods: the call up to its first        *)
(* transmission.  session.request prepares the request once (URL, merged   *)
(* session headers, timeout); every transmission of the call carries it.   *)
(***************************************************************************)
\* keyword arguments a caller passes: none, or timeout=
KwargsInputs == { [k \in {} |-> 0], [k \in {"timeout"} |-> 7] }

\* a variant of the URL that puts one '/' between base URL and endpoint
Url_Joined(base, endpoint) ==
    IF endpoint # <<>> /\ Head(endpoint) = "/" THEN base \o endpoint
    ELSE base \o <<"/">> \o endpoint

\* url = f"{self.base_url}{endpoint}"
Url(base, endpoint) == base \o endpoint


\* a variant that sets the timeout of the client whatever the caller passed
RequestTimeout_Configured(kwargs, configured) == configured

\* if 'timeout' not in kwargs: kwargs['timeout'] = self.timeout
RequestTimeout(kwargs, configured) ==
    IF "timeout" \in DOMAIN kwargs THEN kwargs["timeout"] ELSE configured

request(op, method, endpoint, kwargs) ==
    /\ pc = "idle"
    /\ call' = [op |-> op, method |-> method,
                endpoint |-> endpoint,
                url |-> Url(base_url, endpoint),
                timeout |-> RequestTimeout(kwargs, timeout),
                json |-> IF "json" \in DOMAIN kwargs
                           THEN kwargs["json"] ELSE NoJson,
                headers |-> headers]
    /\ logged' = <<"INFO Making request">>
                   \o (IF "json" \in DOMAIN kwargs
                         THEN <<"DEBUG Request payload">> ELSE <<>>)
    /\ total' = RetryTotal
    /\ nSent' = 1
    /\ pc' = "awaiting"
    /\ lastOutcome' = NoOutcome
    /\ nForced' = 0
    /\ result' = NoResult
    /\ ret' = NoRet
    /\ UNCHANGED client
    /\ UNCHANGED side

get(endpoint, kwargs) == request("get", "GET", endpoint, kwargs)
post(endpoint, kwargs) == request("post", "POST", endpoint, kwargs)
put(endpoint, kwargs) == request("put", "PUT", endpoint, kwargs)
delete(endpoint, kwargs) == request("delete", "DELETE", endpoint, kwargs)
patch(endpoint, kwargs) == request("patch", "PATCH", endpoint, kwargs)

(***************************************************************************)
(* CartHelper and CheckoutHelper: each method builds an endpoint and a     *)
(* payload from its arguments and calls one verb method of the client.     *)
(* Every method is called with its default endpoint.                       *)
(***************************************************************************)
ProductIds == {7}
Quantities == {-1, 0, 2}
UpdateQuantities == {0, 2}
OrderIds == {"o1"}
ShippingAddresses == { [street |-> "s", zip_code |-> "z"] }
PaymentInfos == { [card_number |-> "n", cvv |-> "v"] }

CartItemsEndpoint == <<"/", "cart", "/", "items">>   \* '/cart/items'
CartEndpoint == <<"/", "cart">>                      \* '/cart'
CheckoutEndpoint == <<"/", "checkout">>              \* '/checkout'
OrdersEndpoint == <<"/", "orders">>                  \* '/orders'

HelperOps == {"add_item_to_cart", "remove_item_from_cart", "update_cart_item",
              "get_cart_contents", "clear_cart", "initiate_checkout",
              "submit_checkout", "get_order_summary"}

\* a variant of the payload that raises a quantity below 1 to 1
CartItemPayload_AtLeastOne(product_id, quantity) ==
    [kind |-> "cart_item", product_id |-> product_id,
     quantity |-> IF quantity < 1 THEN 1 ELSE quantity]

\* payload = {'product_id': product_id, 'quantity': quantity}
CartItemPayload(product_id, quantity) ==
    [kind |-> "cart_item", product_id |-> product_id, quantity |-> quantity]

\* a variant of a helper's return that hands back the status without the body
HelperReturn_StatusOnly(r) == [r EXCEPT !.body = NoBody]

\* return self.api_client.<verb>(...): what the verb method returned or raised
HelperReturn(r) == r

add_item_to_cart(product_id, quantity) ==
    request("add_item_to_cart", "POST", CartItemsEndpoint,
            [k \in {"json"} |-> CartItemPayload(product_id, quantity)])

remove_item_from_cart(product_id) ==
    request("remove_item_from_cart", "DELETE",
            CartItemsEndpoint \o <<"/", ToString(product_id)>>, [k \in {} |-> 0])

update_cart_item(product_id, quantity) ==
    request("update_cart_item", "PUT",
            CartItemsEndpoint \o <<"/", ToString(product_id)>>,
            [k \in {"json"} |-> [kind |-> "quantity", quantity |-> quantity]])

get_cart_contents == request("get_cart_contents", "GET", CartEndpoint, [k \in {} |-> 0])

clear_cart == request("clear_cart", "DELETE", CartEndpoint, [k \in {} |-> 0])

initiate_checkout ==
    request("initiate_checkout", "POST", CheckoutEndpoint, [k \in {} |-> 0])

submit_checkout(shipping_address, payment_info) ==
    request("submit_checkout", "POST", CheckoutEndpoint \o <<"/", "submit">>,
            [k \in {"json"} |->
                [kind |-> "checkout", shipping_address |-> shipping_address,
                 payment_info |-> payment_info]])

get_order_summary(order_id) ==
    request("get_order_summary", "GET", OrdersEndpoint \o <<"/", order_id>>,
            [k \in {} |-> 0])

(***************************************************************************)
(* The retry policy of the mounted HTTPAdapter (urllib3 Retry).            *)
(***************************************************************************)
\* Retry._is_method_retryable
MethodRetryable(method) == method \in MethodWhitelist

\* a variant of is_retry that takes every error status for a retry
IsRetry_AnyErrorStatus(method, status, has_retry_after, t) ==
    MethodRetryable(method) /\ status >= 400

\* Retry.is_retry(method, status_code, has_retry_after), with `t` the
\* remaining Retry.total
IsRetry(method, status, has_retry_after, t) ==
    /\ MethodRetryable(method)
    /\ \/ status \in StatusForcelist
       \/ t # 0 /\ has_retry_after /\ status \in RetryAfterStatusCodes

\* a variant of is_exhausted that allows one more attempt
IsExhausted_OneMore(t) == t < -1

\* Retry.is_exhausted, after Retry.increment took one from total
IsExhausted(t) == t < 0

\* what one answer makes of the call: "resend", "return" (the response goes
\* back to the caller) or the exception the session raises
Decide(method, o, t) ==
    CASE o.kind = "response" ->
            IF IsRetry(method, o.status, o.retry_after, t)
              THEN IF IsExhausted(t - 1) THEN "RetryError" ELSE "resend"
              ELSE "return"
      [] o.kind = "connect_error" ->
            IF IsExhausted(t - 1) THEN "ConnectionError" ELSE "resend"
      [] o.kind = "read_error" ->
            IF ~MethodRetryable(method) THEN "ReadTimeout"
            ELSE IF IsExhausted(t - 1) THEN "ConnectionError" ELSE "resend"

\* Retry.increment leaves total alone only when the response is handed back
\* or a read error is re-raised for a method that is not retryable
TotalAfter(method, o, t) ==
    IF Decide(method, o, t) \in {"return", "ReadTimeout"} THEN t ELSE t - 1

\* a variant of the except clause that returns instead of raising again
RequestResult_Swallows(d, o) ==
    IF d = "return"
      THEN [kind |-> "response", status |-> o.status, body |-> o.body, exc |-> "none"]
      ELSE [kind |-> "response", status |-> 0, body |-> NoBody, exc |-> "none"]

\* the try/except of APIClient.request: a response is returned, a
\* RequestException is logged and raised again
RequestResult(d, o) ==
    IF d = "return"
      THEN [kind |-> "response", status |-> o.status, body |-> o.body, exc |-> "none"]
      ELSE [kind |-> "raised", status |-> 0, body |-> NoBody, exc |-> d]

RequestLog(d) ==
    IF d = "return" THEN <<"INFO Response status">> ELSE <<"ERROR Request failed">>

(***************************************************************************)
(* AuthHelper.login and AuthHelper.logout: what they make of the outcome   *)
(* of their POST.                                                          *)
(***************************************************************************)
\* {'error': str(e)}
ErrorEnvelope == [kind |-> "object", names |-> {"error"}, token |-> None]

\* response_data = response.json() if response.content else {}
LoginDataRaises(body) == body.content = "garbage"
LoginData(body) == IF body.content = "json" THEN body.value ELSE EmptyObject

\* Python's `'token' in response_data`: a key of a mapping, an element of a
\* list; a TypeError for a number or null
ContainsRaises(v) == v.kind = "scalar"
Contains(name, v) == name \in v.names
\* response_data['token'] raises a TypeError unless response_data is a mapping
SubscriptRaises(v) == v.kind # "object"

\* a variant of the test of login that looks at the status alone
LoginBranch_StatusOnly(r) ==
    IF r.kind = "raised" \/ LoginDataRaises(r.body) THEN "error"
    ELSE IF r.status # 200 THEN "failed"
    ELSE "success"

\* a variant of the test of login that accepts every 2xx status
LoginBranch_Any2xx(r) ==
    IF r.kind = "raised" \/ LoginDataRaises(r.body) THEN "error"
    ELSE IF r.status \notin 200..299 THEN "failed"
    ELSE IF ContainsRaises(LoginData(r.body)) THEN "error"
    ELSE IF ~Contains("token", LoginData(r.body)) THEN "failed"
    ELSE IF SubscriptRaises(LoginData(r.body)) THEN "error"
    ELSE "success"

\* the branch AuthHelper.login takes: "success", "failed" (the else branch)
\* or "error" (the except branch)
LoginBranch(r) ==
    IF r.kind = "raised" \/ LoginDataRaises(r.body) THEN "error"
    ELSE IF r.status # 200 THEN "failed"
    ELSE IF ContainsRaises(LoginData(r.body)) THEN "error"
    ELSE IF ~Contains("token", LoginData(r.body)) THEN "failed"
    ELSE IF SubscriptRaises(LoginData(r.body)) THEN "error"
    ELSE "success"

\* a variant of login that calls set_auth_token after every 200 it could parse
LoginSetsToken_Any200(r) ==
    r.kind = "response" /\ ~LoginDataRaises(r.body) /\ r.status = 200

\* login calls set_auth_token in its success branch only
LoginSetsToken(r) == LoginBranch(r) = "success"

\* a variant of login whose except clause lets the exception through
LoginReturn_Propagates(r) ==
    CASE LoginBranch(r) = "success" ->
            [op |-> "login", ok |-> TRUE, data |-> LoginData(r.body), raised |-> FALSE]
      [] LoginBranch(r) = "failed" ->
            [op |-> "login", ok |-> FALSE, data |-> LoginData(r.body), raised |-> FALSE]
      [] LoginBranch(r) = "error" ->
            [op |-> "login", ok |-> FALSE, data |-> EmptyObject, raised |-> TRUE]

LoginReturn(r) ==
    CASE LoginBranch(r) = "success" ->
            [op |-> "login", ok |-> TRUE, data |-> LoginData(r.body), raised |-> FALSE]
      [] LoginBranch(r) = "failed" ->
            [op |-> "login", ok |-> FALSE, data |-> LoginData(r.body), raised |-> FALSE]
      [] LoginBranch(r) = "error" ->
            [op |-> "login", ok |-> FALSE, data |-> ErrorEnvelope, raised |-> FALSE]

LoginLog(r) ==
    CASE LoginBranch(r) = "success" ->
            <<"INFO Authentication token set", "INFO Login successful">>
      [] LoginBranch(r) = "failed" -> <<"WARNING Login failed">>
      [] LoginBranch(r) = "error" -> <<"ERROR Login error">>

\* the branch AuthHelper.logout takes: the try body runs to its return, or
\* the except branch
LogoutClears(r) == r.kind = "response"

\* a variant of logout that reports success for every response
LogoutReturn_AnyResponse(r) ==
    [op |-> "logout", ok |-> r.kind = "response", data |-> EmptyObject,
     raised |-> FALSE]

LogoutReturn(r) ==
    [op |-> "logout", ok |-> r.kind = "response" /\ r.status \in {200, 204},
     data |-> EmptyObject, raised |-> FALSE]

LogoutLog(r) ==
    IF LogoutClears(r)
      THEN <<"INFO Authentication token cleared", "INFO Logout successful">>
      ELSE <<"ERROR Logout error">>

\* the credentials of the model's one user
LoginPayload == [kind |-> "login", email |-> "u", password |-> "p"]

login == request("login", "POST", LoginEndpoint, [k \in {"json"} |-> LoginPayload])
logout == request("logout", "POST", LogoutEndpoint, [k \in {} |-> 0])

(***************************************************************************)
(* One answer to the transmission in flight, and everything the client     *)
(* does with it: the adapter sends again, or the call ends and its caller  *)
(* (the test, login or logout) runs on.                                    *)
(***************************************************************************)
\* the caller's continuation once APIClient.request has returned or raised r
Continue(r) ==
    CASE call.op = "login" ->
            /\ ret' = LoginReturn(r)
            /\ logged' = logged \o RequestLog(IF r.kind = "raised" THEN r.exc ELSE "return")
                                \o LoginLog(r)
            /\ IF LoginSetsToken(r)
                 THEN /\ auth_token' = LoginData(r.body).token
                      /\ headers' = WithAuthorization(headers, LoginData(r.body).token)
                      /\ lastTokenOp' = "set"
                 ELSE UNCHANGED <<auth_token, headers, lastTokenOp>>
      [] call.op = "logout" ->
            /\ ret' = LogoutReturn(r)
            /\ logged' = logged \o RequestLog(IF r.kind = "raised" THEN r.exc ELSE "return")
                                \o LogoutLog(r)
            /\ IF LogoutClears(r)
                 THEN /\ auth_token' = None
                      /\ headers' = WithoutAuthorization(headers)
                      /\ lastTokenOp' = "clear"
                 ELSE UNCHANGED <<auth_token, headers, lastTokenOp>>
      [] call.op \in HelperOps ->
            /\ ret' = HelperReturn(r)
            /\ logged' = logged \o RequestLog(IF r.kind = "raised" THEN r.exc ELSE "return")
            /\ UNCHANGED <<auth_token, headers, lastTokenOp>>
      [] OTHER ->
            /\ logged' = logged \o RequestLog(IF r.kind = "raised" THEN r.exc ELSE "return")
            /\ UNCHANGED <<auth_token, headers, lastTokenOp, ret>>

Answer(o) ==
    /\ pc = "awaiting"
    /\ o.body \in BodiesFor(call.op)
    /\ lastOutcome' = [o EXCEPT !.body = NoBody]
    /\ total' = TotalAfter(call.method, o, total)
    /\ nForced' = IF o.kind = "response" /\ o.status \in StatusForcelist
                    THEN nForced + 1 ELSE nForced
    /\ UNCHANGED <<base_url, timeout, call>>
    /\ UNCHANGED side
    /\ IF Decide(call.method, o, total) = "resend"
         THEN /\ nSent' = nSent + 1
              /\ UNCHANGED <<pc, result, ret, auth_token, headers, logged, lastTokenOp>>
         ELSE /\ pc' = "idle"
              /\ nSent' = nSent
              /\ result' = RequestResult(Decide(call.method, o, total), o)
              /\ Continue(RequestResult(Decide(call.method, o, total), o))

Next ==
    \/ \E t \in TokenValues : set_auth_token(t)
    \/ clear_auth_token
    \/ \E e \in Endpoints, kw \in KwargsInputs : get(e, kw)
    \/ \E e \in Endpoints, kw \in KwargsInputs : post(e, kw)
    \/ \E e \in Endpoints, kw \in KwargsInputs : put(e, kw)
    \/ \E e \in Endpoints, kw \in KwargsInputs : delete(e, kw)
    \/ \E e \in Endpoints, kw \in KwargsInputs : patch(e, kw)
    \/ login
    \/ logout
    \/ \E p \in ProductIds, q \in Quantities : add_item_to_cart(p, q)
    \/ \E p \in ProductIds : remove_item_from_cart(p)
    \/ \E p \in ProductIds, q \in UpdateQuantities : update_cart_item(p, q)
    \/ get_cart_contents
    \/ clear_cart
    \/ initiate_checkout
    \/ \E a \in ShippingAddresses, i \in PaymentInfos : submit_checkout(a, i)
    \/ \E id \in OrderIds : get_order_summary(id)
    \/ \E o \in Outcomes : Answer(o)

Spec == Init /\ [][Next]_vars

TypeOK ==
    /\ auth_token \in TokenValues
    /\ pc \in {"idle", "awaiting"}
    /\ total \in -1..RetryTotal
    /\ nSent \in 0..(RetryTotal + 1)

(***************************************************************************)
(* ResponseValidator: four static predicates over a response.  Each is a   *)
(* function of the response's status and body (and of its own arguments);  *)
(* its outcome is the boolean it returns or the exception it raises.       *)
(* json.JSONDecodeError is the class response.json() raises for a body     *)
(* that is not JSON (requests without simplejson).                         *)
(***************************************************************************)
MaxFields == 2      \* longest required_fields list passed to validate_response_schema

ValidatorFieldNames == {"error", "message", "id"}
ValidatorStatuses == {200, 399, 400, 404, 500}
ExpectedStatuses == {200, 404}
\* parsed documents: an object with these field names, an array with these
\* strings as elements, a string with these names as substrings, or a
\* scalar (a number, true, false, null)
ValidatorJsonValues ==
    { [kind |-> k, names |-> S, token |-> None] :
        k \in {"object", "array", "string"}, S \in SUBSET ValidatorFieldNames }
    \cup { [kind |-> "scalar", names |-> {}, token |-> None] }
ValidatorBodies ==
    { [content |-> "empty", value |-> EmptyObject],
      [content |-> "garbage", value |-> EmptyObject] }
    \cup { [content |-> "json", value |-> v] : v \in ValidatorJsonValues }
ValidatorResponses ==
    { [status_code |-> st, body |-> b] : st \in ValidatorStatuses, b \in ValidatorBodies }
RequiredFieldsInputs ==
    UNION { [1..n -> ValidatorFieldNames] : n \in 0..MaxFields }

\* what a call comes to: the value returned, or the exception raised
Returned(v) == [raised |-> "none", value |-> v]
Raised(e) == [raised |-> e, value |-> FALSE]

\* response.json() raises a JSONDecodeError unless the content is JSON
JsonRaises(body) == body.content # "json"

ValidateStatusCode(response, expected_status) ==
    Returned(response.status_code = expected_status)

ValidateJsonResponse(response) == Returned(~JsonRaises(response.body))

\* a variant of the test of required fields that looks at the first field only
AllFieldsIn_FirstOnly(fields, data) ==
    IF fields = <<>> THEN "True"
    ELSE IF ContainsRaises(data) THEN "TypeError"
    ELSE IF Contains(fields[1], data) THEN "True" ELSE "False"

\* all(field in data for field in required_fields): the fields are tested in
\* order, the first one missing ends the test, a test that raises ends it too
RECURSIVE AllFieldsIn(_, _)
AllFieldsIn(fields, data) ==
    IF fields = <<>> THEN "True"
    ELSE IF ContainsRaises(data) THEN "TypeError"
    ELSE IF ~Contains(fields[1], data) THEN "False"
    ELSE AllFieldsIn(Tail(fields), data)

ValidateResponseSchema(response, required_fields) ==
    IF JsonRaises(response.body) THEN Returned(FALSE)
    ELSE IF AllFieldsIn(required_fields, response.body.value) = "TypeError"
      THEN Returned(FALSE)
    ELSE Returned(AllFieldsIn(required_fields, response.body.value) = "True")

\* the except clause names json.JSONDecodeError alone
ValidateErrorResponse(response) ==
    IF response.status_code >= 400
      THEN IF JsonRaises(response.body) THEN Returned(FALSE)
           ELSE IF ContainsRaises(response.body.value) THEN Raised("TypeError")
           ELSE Returned(\/ Contains("error", response.body.value)
                         \/ Contains("message", response.body.value))
      ELSE Returned(TRUE)

\* the arguments of one call, drawn before the call is made
ValidatorInputs ==
    { [fn |-> "none", response |-> r, expected_status |-> e, required_fields |-> f,
       out |-> Raised("pending")] :
        r \in ValidatorResponses, e \in ExpectedStatuses, f \in RequiredFieldsInputs }

InitValidators ==
    /\ ClientInit
    /\ probe \in { i \in ValidatorInputs :
                     i.expected_status = 200 \/ i.required_fields = <<>> }
    /\ fs = NoFs
    /\ SetupIdle
    /\ HeapIdle

ValidatorCall(fn, out) ==
    /\ probe.fn = "none"
    /\ probe' = [probe EXCEPT !.fn = fn, !.out = out]
    /\ UNCHANGED <<clientVars, fs, setupVars, heapVars>>

validate_status_code ==
    ValidatorCall("validate_status_code",
                  ValidateStatusCode(probe.response, probe.expected_status))

validate_json_response ==
    ValidatorCall("validate_json_response", ValidateJsonResponse(probe.response))

validate_response_schema ==
    ValidatorCall("validate_response_schema",
                  ValidateResponseSchema(probe.response, probe.required_fields))

validate_error_response ==
    ValidatorCall("validate_error_response", ValidateErrorResponse(probe.response))

NextValidators ==
    \/ validate_status_code
    \/ validate_json_response
    \/ validate_response_schema
    \/ validate_error_response

SpecValidators == InitValidators /\ [][NextValidators]_vars

(***************************************************************************)
(* TestDataLoader: static methods that read a JSON file.  A path of the    *)
(* file system is missing, a directory, a file that is not JSON, or a file *)
(* that holds a JSON document; the file system changes between calls.     *)
(***************************************************************************)
\* Python values read from a file: a mapping (key -> value), or a list
Mapping(f) == [kind |-> "object", fields |-> f]
EmptyMapping == Mapping([k \in {} |-> 0])
ListOf(items) == [kind |-> "array", fields |-> [k \in {} |-> 0], items |-> items]
List == ListOf({})
IsMapping(v) == v.kind = "object"
\* a call of the loader that ends in an exception (it has no value)
Raises(e) == [raised |-> e, value |-> EmptyMapping]
\* dict.get(key, default)
Get(v, key, default) == IF key \in DOMAIN v.fields THEN v.fields[key] ELSE default

\* the entry of one user or product
Entry(name) == Mapping([k \in {"name"} |-> [kind |-> "string", fields |-> name]])
TypeNames == {"standard", "premium"}
\* what a document has under 'valid_users' or 'products': a mapping from
\* user or product types to entries, here with the type 'standard', or a list
SectionValues == { Mapping([k \in {"standard"} |-> Entry("standard")]), List }
SectionNames == {"valid_users", "products"}
Documents ==
    { Mapping(f) : f \in UNION { [K -> SectionValues] : K \in {{}, SectionNames} } }
    \cup { List }

Missing == [kind |-> "missing"]
Directory == [kind |-> "directory"]
\* a file of text that is not JSON, and a file that holds a JSON document
TextFile(t) == [kind |-> "file", json |-> FALSE, doc |-> EmptyMapping, text |-> t]
Malformed == TextFile("{not json")
JsonFile(d) == [kind |-> "file", json |-> TRUE, doc |-> d, text |-> "json"]
FileStates == {Missing, Directory, Malformed} \cup { JsonFile(d) : d \in Documents }

\* os.path.join(<project root>, 'data', 'test_data.json')
DefaultDataPath == "data/test_data.json"
DataPaths == {DefaultDataPath, "custom.json"}
Path(p) == [type |-> "str", text |-> p]
FilePathInputs == {None} \cup { Path(p) : p \in DataPaths }
ResolvePath(file_path) == IF file_path = None THEN DefaultDataPath ELSE file_path.text

\* a variant of the loader without the except clause for JSONDecodeError
LoadTestData_NoJsonClause(found) ==
    CASE found.kind = "missing" -> Returned(EmptyMapping)
      [] found.kind = "directory" -> Raises("IsADirectoryError")
      [] found.kind = "file" ->
            IF found.json THEN Returned(found.doc) ELSE Raises("JSONDecodeError")

\* open(file_path, 'r') and json.load(file), with the two except clauses
LoadTestData(found) ==
    CASE found.kind = "missing" -> Returned(EmptyMapping)
      [] found.kind = "directory" -> Raises("IsADirectoryError")
      [] found.kind = "file" ->
            IF found.json THEN Returned(found.doc) ELSE Returned(EmptyMapping)

LoadLog(found) ==
    CASE found.kind = "missing" -> <<"ERROR Test data file not found">>
      [] found.kind = "file" /\ ~found.json -> <<"ERROR Invalid JSON in test data file">>
      [] OTHER -> <<>>

\* test_data.get(section, {}).get(type, {}): .get is a method of mappings only
GetData(found, section, type) ==
    IF LoadTestData(found).raised # "none" THEN LoadTestData(found)
    ELSE IF ~IsMapping(LoadTestData(found).value) THEN Raises("AttributeError")
    ELSE IF ~IsMapping(Get(LoadTestData(found).value, section, EmptyMapping))
      THEN Raises("AttributeError")
    ELSE Returned(Get(Get(LoadTestData(found).value, section, EmptyMapping),
                      type, EmptyMapping))

\* the file at the path is not what the previous call found there
ChangedSince(path) ==
    /\ probe.fn # "none"
    /\ ResolvePath(probe.file_path) = path
    /\ probe.found # fs[path]

\* a variant of the read that keeps what the previous call found at the path
ReadFile_Cached(path) ==
    IF probe.fn # "none" /\ ResolvePath(probe.file_path) = path
      THEN probe.found ELSE fs[path]

\* with open(file_path, 'r') as file: the file as it is when the call is made
ReadFile(path) == fs[path]

LoaderCall(fn, file_path, type, out) ==
    /\ probe' = [fn |-> fn, file_path |-> file_path, type |-> type,
                 found |-> ReadFile(ResolvePath(file_path)), out |-> out,
                 changed |-> ChangedSince(ResolvePath(file_path)),
                 logged |-> LoadLog(ReadFile(ResolvePath(file_path)))]
    /\ UNCHANGED <<clientVars, fs, setupVars, heapVars>>

load_test_data(file_path) ==
    LoaderCall("load_test_data", file_path, "",
               LoadTestData(ReadFile(ResolvePath(file_path))))

get_user_data(user_type, file_path) ==
    LoaderCall("get_user_data", file_path, user_type,
               GetData(ReadFile(ResolvePath(file_path)), "valid_users", user_type))

get_product_data(product_type, file_path) ==
    LoaderCall("get_product_data", file_path, product_type,
               GetData(ReadFile(ResolvePath(file_path)), "products", product_type))

\* between two calls a file is written, replaced or removed
file_changes(path, state) ==
    /\ fs[path] # state
    /\ fs' = [fs EXCEPT ![path] = state]
    /\ UNCHANGED <<clientVars, probe, setupVars, heapVars>>

InitLoader ==
    /\ ClientInit
    /\ probe = NoProbe
    /\ fs = [p \in DataPaths |-> Missing]
    /\ SetupIdle
    /\ HeapIdle

NextLoader ==
    \/ \E f \in FilePathInputs : load_test_data(f)
    \/ \E t \in TypeNames, f \in FilePathInputs : get_user_data(t, f)
    \/ \E t \in TypeNames, f \in FilePathInputs : get_product_data(t, f)
    \/ \E p \in DataPaths, st \in FileStates : file_changes(p, st)

SpecLoader == InitLoader /\ [][NextLoader]_vars

(***************************************************************************)
(* setup.py: main() runs seven provisioning steps over the working         *)
(* directory, one after the other, and exits.  The paths are those of      *)
(* Linux/Mac (os.name other than 'nt').  What an external command or an    *)
(* operation of the operating system does is an input of the step: it      *)
(* succeeds ("ok"), it fails ("failed": a non-zero return code, a refused  *)
(* write) or the command cannot be started at all ("oserror").             *)
(***************************************************************************)
VenvPath == "venv"
PipPath == "venv/bin/pip"
PythonPath == "venv/bin/python"
EnvPath == ".env"
TemplatePath == ".env.template"
ReportsPath == "reports"
SetupPaths == {VenvPath, PipPath, PythonPath, EnvPath, TemplatePath, ReportsPath,
               DefaultDataPath}

MinPythonMinor == 8     \* min_version = (3, 8)
RunOutcomes == {"ok", "failed", "oserror"}
RequiredKeys == <<"base_url", "endpoints", "valid_users">>

\* Path.exists()
Exists(f, path) == f[path].kind # "missing"

\* the result of a step function: what it returned ("True", "False") or that
\* it raised, and the file system it leaves
StepResult(r, f) == [ret |-> r, fs |-> f]

CheckPythonVersion(e, f) ==
    StepResult(IF e.python_minor < MinPythonMinor THEN "False" ELSE "True", f)

CreateVirtualEnvironment(f, r) ==
    IF Exists(f, VenvPath) THEN StepResult("True", f)
    ELSE CASE r = "ok" ->
                StepResult("True", [f EXCEPT ![VenvPath] = Directory,
                                             ![PipPath] = TextFile("pip"),
                                             ![PythonPath] = TextFile("python")])
           [] r = "failed" -> StepResult("False", [f EXCEPT ![VenvPath] = Directory])
           [] r = "oserror" -> StepResult("raised", f)

InstallDependencies(f, r) ==
    IF ~Exists(f, PipPath) THEN StepResult("False", f)
    ELSE CASE r = "ok" -> StepResult("True", f)
           [] r = "failed" -> StepResult("False", f)
           [] r = "oserror" -> StepResult("raised", f)

\* a variant without the test `if env_file.exists()`
CreateEnvFile_Overwrites(f, r) ==
    IF ~Exists(f, TemplatePath) THEN StepResult("True", f)
    ELSE IF r = "ok" /\ f[TemplatePath].kind = "file"
      THEN StepResult("True", [f EXCEPT ![EnvPath] = f[TemplatePath]])
    ELSE StepResult("False", f)

CreateEnvFile(f, r) ==
    IF Exists(f, EnvPath) THEN StepResult("True", f)
    ELSE IF ~Exists(f, TemplatePath) THEN StepResult("True", f)
    ELSE IF r = "ok" /\ f[TemplatePath].kind = "file"
      THEN StepResult("True", [f EXCEPT ![EnvPath] = f[TemplatePath]])
    ELSE StepResult("False", f)

CreateReportsDirectory(f, r) ==
    IF Exists(f, ReportsPath) THEN StepResult("True", f)
    ELSE IF r = "ok" THEN StepResult("True", [f EXCEPT ![ReportsPath] = Directory])
    ELSE StepResult("False", f)

\* a JSON document that is a number
Number == [kind |-> "scalar", fields |-> [k \in {} |-> 0]]

\* Python's `key in test_data`: a key of a mapping, an element of a list
KeyIn(key, doc) ==
    CASE doc.kind = "object" -> key \in DOMAIN doc.fields
      [] doc.kind = "array" -> key \in doc.items
      [] OTHER -> FALSE

\* `key not in test_data` for every required key, in order
RECURSIVE HasKeys(_, _)
HasKeys(keys, doc) ==
    IF keys = <<>> THEN TRUE
    ELSE IF ~KeyIn(keys[1], doc) THEN FALSE
    ELSE HasKeys(Tail(keys), doc)

\* open() of a directory and `in` on a number raise, and `except Exception`
\* turns every exception into a return of False
ValidateTestData(f) ==
    IF ~Exists(f, DefaultDataPath) THEN StepResult("False", f)
    ELSE IF f[DefaultDataPath].kind # "file" \/ ~f[DefaultDataPath].json
      THEN StepResult("False", f)
    ELSE IF f[DefaultDataPath].doc.kind = "scalar" THEN StepResult("False", f)
    ELSE StepResult(IF HasKeys(RequiredKeys, f[DefaultDataPath].doc)
                      THEN "True" ELSE "False", f)

RunSampleTest(f, r) ==
    IF ~Exists(f, PythonPath) THEN StepResult("False", f)
    ELSE CASE r = "ok" -> StepResult("True", f)
           [] r = "failed" -> StepResult("False", f)
           [] r = "oserror" -> StepResult("raised", f)

\* the interpreters and platforms the script is run on
Envs == [python_minor : {7, 8}, stdout_encodes : BOOLEAN]

\* the working directories the script is started in
SetupDocuments ==
    { Mapping([k \in K |-> EmptyMapping]) :
        K \in { {"base_url", "endpoints", "valid_users"}, {"base_url", "endpoints"} } }
    \cup { ListOf({"base_url", "endpoints", "valid_users"}), Number }
SetupDataFiles == {Missing, Malformed} \cup { JsonFile(d) : d \in SetupDocuments }
SetupFileSystems ==
    { [p \in SetupPaths |->
        CASE p = VenvPath -> IF venv THEN Directory ELSE Missing
          [] p = PipPath -> IF venv THEN TextFile("pip") ELSE Missing
          [] p = PythonPath -> IF venv THEN TextFile("python") ELSE Missing
          [] p = EnvPath -> IF dotenv THEN TextFile("SECRET=mine") ELSE Missing
          [] p = TemplatePath -> IF template THEN TextFile("SECRET=") ELSE Missing
          [] p = ReportsPath -> IF reports THEN Directory ELSE Missing
          [] p = DefaultDataPath -> data] :
        venv \in BOOLEAN, dotenv \in BOOLEAN, template \in BOOLEAN,
        reports \in BOOLEAN, data \in SetupDataFiles }

InitSetup ==
    /\ ClientInit
    /\ probe = NoProbe
    /\ fs \in SetupFileSystems
    /\ env \in Envs
    /\ main_pc = "idle"
    /\ outcomes = <<>>
    /\ failed_steps = <<>>
    /\ exit_code = 0
    /\ stdout = <<>>
    /\ HeapIdle

\* logger = setup_logging(); steps = [...]; failed_steps = []
main_start ==
    /\ main_pc = "idle"
    /\ main_pc' = "running"
    /\ failed_steps' = <<>>
    /\ UNCHANGED <<clientVars, probe, fs, env, outcomes, exit_code, stdout, heapVars>>

\* the names of the list `steps`, in its order
Steps ==
    << "Checking Python version", "Creating virtual environment",
       "Installing dependencies", "Creating .env file",
       "Creating reports directory", "Validating test data",
       "Running sample test" >>

Failed_ReturnOnly(r) == r = "False"

\* `if not step_function()` and `except Exception`: the step is a failed one
\* when it returned a false value and when it raised
Failed(r) == r # "True"

\* one turn of the loop of main(): the step function is called, and the step
\* is appended to failed_steps when it failed
RunStep(index, res) ==
    /\ main_pc = "running"
    /\ Len(outcomes) = index - 1
    /\ outcomes' = Append(outcomes, res.ret)
    /\ failed_steps' = IF Failed(res.ret) THEN Append(failed_steps, Steps[index])
                         ELSE failed_steps
    /\ fs' = res.fs
    /\ UNCHANGED <<clientVars, probe, env, main_pc, exit_code, stdout, heapVars>>

check_python_version ==
    RunStep(1, CheckPythonVersion(env, fs))

create_virtual_environment(r) ==
    RunStep(2, CreateVirtualEnvironment(fs, r))

install_dependencies(r) ==
    RunStep(3, InstallDependencies(fs, r))

create_env_file(r) ==
    RunStep(4, CreateEnvFile(fs, r))

create_reports_directory(r) ==
    RunStep(5, CreateReportsDirectory(fs, r))

validate_test_data ==
    RunStep(6, ValidateTestData(fs))

run_sample_test(r) ==
    RunStep(7, RunSampleTest(fs, r))

NumSteps == 7

\* the end of main(): sys.exit(1) when a step failed; otherwise
\* print_usage_instructions(), whose print of a text with an emoji raises
\* UnicodeEncodeError when the encoding of stdout cannot encode it, and an
\* uncaught exception ends the process with exit code 1
main_exit ==
    /\ main_pc = "running"
    /\ Len(outcomes) = NumSteps
    /\ main_pc' = "exited"
    /\ IF failed_steps # <<>>
         THEN exit_code' = 1 /\ stdout' = stdout
         ELSE IF env.stdout_encodes
           THEN exit_code' = 0 /\ stdout' = Append(stdout, "usage instructions")
           ELSE exit_code' = 1 /\ stdout' = stdout
    /\ UNCHANGED <<clientVars, probe, fs, env, outcomes, failed_steps, heapVars>>

NextSetup ==
    \/ main_start
    \/ check_python_version
    \/ \E r \in RunOutcomes : create_virtual_environment(r)
    \/ \E r \in RunOutcomes : install_dependencies(r)
    \/ \E r \in RunOutcomes : create_env_file(r)
    \/ \E r \in RunOutcomes : create_reports_directory(r)
    \/ validate_test_data
    \/ \E r \in RunOutcomes : run_sample_test(r)
    \/ main_exit

SpecSetup == InitSetup /\ [][NextSetup]_vars

(***************************************************************************)
(* The URL of a request, over base URLs and endpoints of every shape: the  *)
(* client is constructed from a base URL with or without slashes at either *)
(* end, and asked for endpoints with and without a leading or trailing     *)
(* slash.                                                                  *)
(***************************************************************************)
MaxUrlLen == 3      \* longest base URL, in characters

UrlBaseInputs == UNION { [1..n -> {"h", "/"}] : n \in 0..MaxUrlLen }
UrlEndpoints == { <<>>, <<"c">>, <<"/", "c">>, <<"/", "c", "/">> }
NoKwargs == [k \in {} |-> 0]
\* what the network answers with in these runs
UrlOutcomes ==
    { o \in Outcomes : /\ o.kind = "response"
                        /\ o.status \in {200, 503}
                        /\ ~o.retry_after
                        /\ o.body = NoBody }

\* the client as constructed, with the argument of the constructor on record
InitUrl ==
    /\ \E b \in UrlBaseInputs :
          /\ Construct(b, DefaultTimeout)
          /\ probe = [fn |-> "APIClient", base_url |-> b]
    /\ fs = NoFs
    /\ SetupIdle
    /\ HeapIdle

NextUrl ==
    \/ \E e \in UrlEndpoints : get(e, NoKwargs)
    \/ \E e \in UrlEndpoints : post(e, NoKwargs)
    \/ \E o \in UrlOutcomes : Answer(o)

SpecUrl == InitUrl /\ [][NextUrl]_vars

(***************************************************************************)
(* Several APIClient objects side by side.  Each constructor call makes a  *)
(* requests.Session of its own; a client refers to its session, and the    *)
(* headers live in the session.  An operation on one object is followed to *)
(* its end in one step: login and logout are given what their POST came to.*)
(***************************************************************************)
Instances == {"a", "b"}

\* a variant of the constructor in which every client gets the same session
NewSession_Shared(ss) == 1

\* self.session = requests.Session(): an object no other client holds
NewSession(ss) == Cardinality(DOMAIN ss) + 1

\* what the POST of login or logout comes to, as handed over by request
LoginResults ==
    { RequestResult("return", o) :
        o \in { x \in Responses : x.status \in {200, 401} /\ ~x.retry_after } }
    \cup { RequestResult("ConnectionError", ConnectError) }
LogoutResults ==
    { r \in LoginResults : r.body \in PlainBodies }

SessionOf(c) == clients[c].session

\* APIClient(base_url) bound to the name c
construct_client(c) ==
    /\ c \notin DOMAIN clients
    /\ clients' = [x \in DOMAIN clients \cup {c} |->
                     IF x = c THEN [auth_token |-> None, session |-> NewSession(sessions)]
                     ELSE clients[x]]
    /\ sessions' = [i \in DOMAIN sessions \cup {NewSession(sessions)} |->
                      IF i = NewSession(sessions) THEN DefaultHeaders ELSE sessions[i]]
    /\ acted' = [instance |-> c, op |-> "APIClient"]
    /\ UNCHANGED <<clientVars, probe, fs, setupVars>>

\* c.set_auth_token(t)
SetOn(c, t, op) ==
    /\ clients' = [clients EXCEPT ![c].auth_token = t]
    /\ sessions' = [sessions EXCEPT ![SessionOf(c)] = WithAuthorization(@, t)]
    /\ acted' = [instance |-> c, op |-> op]
    /\ UNCHANGED <<clientVars, probe, fs, setupVars>>

\* c.clear_auth_token()
ClearOn(c, op) ==
    /\ clients' = [clients EXCEPT ![c].auth_token = None]
    /\ sessions' = [sessions EXCEPT ![SessionOf(c)] = WithoutAuthorization(@)]
    /\ acted' = [instance |-> c, op |-> op]
    /\ UNCHANGED <<clientVars, probe, fs, setupVars>>

\* an operation of c that leaves its token alone
KeepOn(c, op) ==
    /\ acted' = [instance |-> c, op |-> op]
    /\ UNCHANGED <<clients, sessions>>
    /\ UNCHANGED <<clientVars, probe, fs, setupVars>>

set_auth_token_on(c, t) == c \in DOMAIN clients /\ SetOn(c, t, "set_auth_token")

clear_auth_token_on(c) == c \in DOMAIN clients /\ ClearOn(c, "clear_auth_token")

\* AuthHelper(c).login(...), its POST having come to r
login_on(c, r) ==
    /\ c \in DOMAIN clients
    /\ IF LoginSetsToken(r) THEN SetOn(c, LoginData(r.body).token, "login")
       ELSE KeepOn(c, "login")

\* AuthHelper(c).logout(), its POST having come to r
logout_on(c, r) ==
    /\ c \in DOMAIN clients
    /\ IF LogoutClears(r) THEN ClearOn(c, "logout") ELSE KeepOn(c, "logout")

InitTwo ==
    /\ ClientInit
    /\ probe = NoProbe
    /\ fs = NoFs
    /\ SetupIdle
    /\ HeapIdle

NextTwo ==
    \/ \E c \in Instances : construct_client(c)
    \/ \E c \in Instances, t \in TokenValues : set_auth_token_on(c, t)
    \/ \E c \in Instances : clear_auth_token_on(c)
    \/ \E c \in Instances, r \in LoginResults : login_on(c, r)
    \/ \E c \in Instances, r \in LogoutResults : logout_on(c, r)

SpecTwo == InitTwo /\ [][NextTwo]_vars

(***************************************************************************)
(* Vocabulary of the properties.                                           *)
(***************************************************************************)
VerbOps == {"get", "post", "put", "delete", "patch"}
HasAuthorization(h) == "Authorization" \in DOMAIN h
\* the body is a JSON object with a `token` field
HasTokenField(b) ==
    b.content = "json" /\ b.value.kind = "object" /\ "token" \in b.value.names
\* the latest answer was a response with a status of the forcelist
ForcedAnswer ==
    lastOutcome.kind = "response" /\ lastOutcome.status \in StatusForcelist
\* the latest answer was handed back to the caller of request as it came
HandedBack ==
    /\ pc = "idle"
    /\ result.kind = "response"
    /\ result.status = lastOutcome.status
\* the step in which login (logout) returns to its caller
LoginReturns == pc = "awaiting" /\ pc' = "idle" /\ call.op = "login"
\* the step in which a request is prepared and first transmitted
RequestStarts == pc = "idle" /\ pc' = "awaiting"

(***************************************************************************)
(* C1.  For every verb method (get, post, put, delete, patch), an attempt  *)
(* answered with a status of {429,500,502,503,504} is sent again, up to 3  *)
(* retries, before anything is handed back: a call whose last answer had   *)
(* such a status has ended only after all 1 + 3 transmissions.             *)
(***************************************************************************)
C1_EveryVerbRetries ==
    (pc = "idle" /\ call.op \in VerbOps /\ ForcedAnswer) => nSent = RetryTotal + 1

(***************************************************************************)
(* C2.  When the first attempt and all 3 retries of a request are answered *)
(* with a status of the forcelist, request returns the last response as an *)
(* ordinary response and does not raise.                                   *)
(***************************************************************************)
C2_ExhaustionReturnsLastResponse ==
    (pc = "idle" /\ nSent = RetryTotal + 1 /\ nForced = nSent) => HandedBack

C4_No4xxRetry ==
    (lastOutcome.kind = "response" /\ lastOutcome.status \in 400..499)
        => (pc = "idle" /\ (total = RetryTotal => nSent = 1))

\* C4 as amended: no retry is applied to 4xx responses other than 429 and a
\* 413 that carries a Retry-After header.
C4_No4xxRetryAmended ==
    ( /\ lastOutcome.kind = "response"
      /\ lastOutcome.status \in (400..499) \ {429}
      /\ ~(lastOutcome.status = 413 /\ lastOutcome.retry_after) )
        => (pc = "idle" /\ (total = RetryTotal => nSent = 1))

C4_Witness ==
    /\ pc = "idle" /\ call.op = "delete"
    /\ lastOutcome.kind = "response" /\ lastOutcome.status = 413
    /\ ~lastOutcome.retry_after
    /\ nSent = 1

(***************************************************************************)
(* C5.  After clear_auth_token every following request, of any verb and    *)
(* of any helper, is sent without an Authorization header, until the next  *)
(* set_auth_token or successful login.                                     *)
(***************************************************************************)
C5_NoAuthorizationAfterClear ==
    ( /\ lastTokenOp = "clear"
      /\ nSent >= 1
      /\ call.op = "logout" => pc = "awaiting" )
        => ~HasAuthorization(call.headers)

C5_Witness ==
    /\ lastTokenOp = "clear"
    /\ pc = "awaiting" /\ call.op = "post" /\ nSent = 2
    /\ ~HasAuthorization(call.headers)

(***************************************************************************)
(* C6.  login reports failure whenever the response body has no `token`    *)
(* field, even if the status is 200, and then does not call                *)
(* set_auth_token: the token and the Authorization header stay as they     *)
(* were before the call.                                                   *)
(***************************************************************************)
C6_LoginWithoutTokenFails ==
    [][ (LoginReturns /\ result'.kind = "response" /\ ~HasTokenField(result'.body))
          => (~ret'.ok /\ auth_token' = auth_token /\ headers' = headers) ]_vars

C6_Witness ==
    /\ pc = "idle" /\ call.op = "login"
    /\ result.kind = "response" /\ result.status = 200
    /\ ~HasTokenField(result.body)
    /\ ~ret.ok
    /\ auth_token = Str(1) /\ HasAuthorization(headers)

(***************************************************************************)
(* C7.  login reports success exactly when the status is 200 and the       *)
(* parsed body has a `token` field; on success it returns the parsed body, *)
(* auth_token is the body's token, and the requests that follow carry      *)
(* Authorization: Bearer <that token>.                                     *)
(***************************************************************************)
C7_LoginSuccess ==
    [][ /\ LoginReturns =>
            /\ ret'.ok <=> ( /\ result'.kind = "response"
                             /\ result'.status = 200
                             /\ HasTokenField(result'.body) )
            /\ ret'.ok =>
                 /\ ret'.data = result'.body.value
                 /\ auth_token' = result'.body.value.token
                 /\ HasAuthorization(headers')
                 /\ headers'["Authorization"] = <<"Bearer", Format(result'.body.value.token)>>
        /\ RequestStarts => call'.headers = headers ]_vars

C7_Witness ==
    /\ pc = "idle" /\ call.op = "login" /\ ret.ok
    /\ result.body.value.token = Str(2)
    /\ auth_token = Str(2)
    /\ headers["Authorization"] = <<"Bearer", "tokB">>

(***************************************************************************)
(* C8.  logout clears the local token unconditionally: whenever logout     *)
(* returns, auth_token is absent and the Authorization header is removed,  *)
(* whatever the outcome of the POST (any status, or the request failing).  *)
(***************************************************************************)
C8_LogoutAlwaysClears ==
    (pc = "idle" /\ call.op = "logout")
        => (auth_token = None /\ ~HasAuthorization(headers))

(***************************************************************************)
(* C9.  logout returns True only if the server answered the POST with 200  *)
(* or 204; for every other status, and when the request raises, it returns *)
(* False and does not raise.                                               *)
(***************************************************************************)
C9_LogoutResult ==
    (pc = "idle" /\ call.op = "logout")
        => /\ ret.op = "logout"
           /\ ~ret.raised
           /\ ret.ok <=> (result.kind = "response" /\ result.status \in {200, 204})

C9_Witness ==
    /\ pc = "idle" /\ call.op = "logout"
    /\ result.kind = "raised"
    /\ ret.op = "logout" /\ ~ret.ok

(***************************************************************************)
(* C10.  login never raises: when the POST raises or the body cannot be    *)
(* parsed it returns (False, {'error': <message>}) and leaves the client's *)
(* token as it was.                                                        *)
(***************************************************************************)
C10_LoginNeverRaises ==
    [][ LoginReturns =>
          /\ ret'.op = "login"
          /\ ~ret'.raised
          /\ (result'.kind = "raised" \/ result'.body.content = "garbage")
                => /\ ~ret'.ok
                   /\ ret'.data = [kind |-> "object", names |-> {"error"}, token |-> None]
                   /\ auth_token' = auth_token
                   /\ headers' = headers ]_vars

C10_Witness ==
    /\ pc = "idle" /\ call.op = "login"
    /\ result.kind = "raised"
    /\ ~ret.ok /\ "error" \in ret.data.names
    /\ auth_token = Str(1)

(***************************************************************************)
(* C11.  A transport-level failure inside APIClient.request is not         *)
(* swallowed: when the call ends on a connection error or a timeout, the   *)
(* exception reaches the caller of request, the error was logged, and no   *)
(* response is returned for the call.                                      *)
(***************************************************************************)
TransportFailure == lastOutcome.kind \in {"connect_error", "read_error"}

C11_TransportFailurePropagates ==
    (pc = "idle" /\ TransportFailure)
        => /\ result.kind = "raised"
           /\ result.exc \in {"ConnectionError", "ReadTimeout"}
           /\ result.body = NoBody
           /\ \E i \in 1..Len(logged) : logged[i] = "ERROR Request failed"
           /\ \A i \in 1..Len(logged) : logged[i] # "INFO Response status"
           /\ call.op \notin {"login", "logout"}
                 => logged[Len(logged)] = "ERROR Request failed"

C11_Witness ==
    /\ pc = "idle" /\ call.op = "get"
    /\ lastOutcome.kind = "read_error"
    /\ nSent = RetryTotal + 1
    /\ result.kind = "raised" /\ result.exc = "ConnectionError"
    /\ logged[Len(logged)] = "ERROR Request failed"

(***************************************************************************)
(* C12.  validate_error_response returns True for every response with     *)
(* status < 400 whatever its body; for status >= 400 it returns True       *)
(* exactly when the parsed body carries an `error` or a `message` field,   *)
(* and False for every status >= 400 whose body lacks both.                *)
(***************************************************************************)
\* the body parses to an object that has the field
CarriesField(body, name) ==
    body.content = "json" /\ body.value.kind = "object" /\ name \in body.value.names

C12_ErrorResponseVerdict ==
    probe.fn = "validate_error_response"
        => /\ probe.out.raised = "none"
           /\ probe.out.value <=> \/ probe.response.status_code < 400
                                   \/ CarriesField(probe.response.body, "error")
                                   \/ CarriesField(probe.response.body, "message")

(***************************************************************************)
(* C13.  Each of the four ResponseValidator predicates is tolerant of      *)
(* malformed input: for every response, bodies that are not JSON or that   *)
(* parse to something other than a mapping included, it returns a boolean  *)
(* and never raises.                                                       *)
(***************************************************************************)
ValidatorFns == {"validate_status_code", "validate_json_response",
                 "validate_response_schema", "validate_error_response"}

C13_ValidatorsNeverRaise ==
    probe.fn \in ValidatorFns => probe.out.raised = "none"

LoaderFns == {"load_test_data", "get_user_data", "get_product_data"}

C14_LoaderTolerates ==
    ( /\ probe.fn \in LoaderFns
      /\ probe.found = Missing \/ probe.found = Malformed )
        => /\ probe.out.raised = "none"
           /\ probe.out.value = EmptyMapping

C14_Witness ==
    /\ probe.fn = "get_user_data"
    /\ probe.file_path = Path("custom.json")
    /\ probe.found = Malformed
    /\ fs["custom.json"] = Malformed
    /\ probe.out = Returned(EmptyMapping)

(***************************************************************************)
(* C15.  The setup script's main() ends with exit code 1 if at least one   *)
(* of its seven provisioning steps returned a false result or raised, and  *)
(* with exit code 0 exactly when every step succeeded.                     *)
(***************************************************************************)
EveryStepSucceeded == \A i \in 1..Len(outcomes) : outcomes[i] = "True"

C15_ExitCode ==
    main_pc = "exited"
        => /\ ~EveryStepSucceeded => exit_code = 1
           /\ exit_code = 0 <=> EveryStepSucceeded

(***************************************************************************)
(* C16.  The client's token changes only through a successful login, a     *)
(* logout, clear_auth_token and set_auth_token: every verb request, every  *)
(* failed login and every helper call of CartHelper and CheckoutHelper     *)
(* leaves auth_token and the Authorization header (all session headers)    *)
(* as they were, whatever the response.                                    *)
(***************************************************************************)
C16_TokenChangesOnlyByTokenOps ==
    [][ /\ (auth_token' # auth_token \/ headers' # headers)
            => \/ pc = "idle" /\ call'.op \in {"set_auth_token", "clear_auth_token"}
               \/ LoginReturns /\ ret'.ok
               \/ pc = "awaiting" /\ pc' = "idle" /\ call.op = "logout"
        /\ (call'.op \in VerbOps \cup HelperOps \/ (LoginReturns /\ ~ret'.ok))
            => (auth_token' = auth_token /\ headers' = headers) ]_vars

C16_Witness ==
    /\ pc = "idle" /\ call.op = "add_item_to_cart"
    /\ result.kind = "response" /\ result.status = 401
    /\ auth_token = Str(1)
    /\ headers["Authorization"] = <<"Bearer", "tokA">>

(***************************************************************************)
(* C18.  In every reachable state the client holds at most one token and   *)
(* the header matches it: auth_token is None exactly when the session has  *)
(* no Authorization header, and otherwise the header is 'Bearer ' followed *)
(* by auth_token.                                                          *)
(***************************************************************************)
C18_HeaderMatchesToken ==
    /\ auth_token = None <=> ~HasAuthorization(headers)
    /\ auth_token # None => headers["Authorization"] = <<"Bearer", auth_token.text>>

(***************************************************************************)
(* C20.  The stored base URL never ends with '/'; the URL of every request *)
(* is exactly the stored base URL followed by the endpoint as given, no    *)
(* separator inserted or removed; and a client constructed from a base URL *)
(* that is already normalized stores it unchanged.                         *)
(***************************************************************************)
EndsWithSlash(u) == u # <<>> /\ u[Len(u)] = "/"

C20_UrlIsBasePlusEndpoint ==
    /\ ~EndsWithSlash(base_url)
    /\ call.op # "none" =>
          /\ Len(call.url) = Len(base_url) + Len(call.endpoint)
          /\ SubSeq(call.url, 1, Len(base_url)) = base_url
          /\ SubSeq(call.url, Len(base_url) + 1, Len(call.url)) = call.endpoint
    /\ probe.fn = "APIClient" =>
          /\ ~EndsWithSlash(probe.base_url) => base_url = probe.base_url
          /\ Len(base_url) <= Len(probe.base_url)
          /\ \A i \in 1..Len(probe.base_url) :
                IF i <= Len(base_url) THEN probe.base_url[i] = base_url[i]
                ELSE probe.base_url[i] = "/"

C20_Witness ==
    /\ probe.fn = "APIClient" /\ probe.base_url = <<"h", "/", "/">>
    /\ base_url = <<"h">>
    /\ pc = "idle" /\ call.op = "get" /\ call.endpoint = <<"c">>
    /\ call.url = <<"h", "c">>
    /\ result.kind = "response"

(***************************************************************************)
(* C17.  Two APIClient instances are independent: no set_auth_token,       *)
(* clear_auth_token, login or logout on one instance changes the other     *)
(* instance's auth_token or the headers it sends.                          *)
(***************************************************************************)
C17_InstancesIndependent ==
    [][ \A c \in DOMAIN clients :
          c # acted'.instance
            => /\ clients'[c] = clients[c]
               /\ sessions'[clients'[c].session] = sessions[clients[c].session] ]_vars

C17_Witness ==
    /\ DOMAIN clients = Instances
    /\ acted = [instance |-> "b", op |-> "login"]
    /\ clients["b"].auth_token = Str(2)
    /\ sessions[clients["b"].session]["Authorization"] = <<"Bearer", "tokB">>
    /\ clients["a"].auth_token = Str(1)
    /\ sessions[clients["a"].session]["Authorization"] = <<"Bearer", "tokA">>

(***************************************************************************)
(* C21.  CartHelper and CheckoutHelper do no input validation and keep no  *)
(* state: for every product_id and quantity, zero and negative quantities  *)
(* included, add_item_to_cart makes exactly one POST call on the client,   *)
(* with the payload {product_id, quantity} unchanged, and each helper      *)
(* method returns the client's response as it is.                          *)
(***************************************************************************)
\* the step in which a helper method returns to its caller
HelperReturns == pc = "awaiting" /\ pc' = "idle" /\ call.op \in HelperOps

C21_HelpersPassThrough ==
    [][ /\ \A p \in ProductIds, q \in Quantities :
              (RequestStarts /\ add_item_to_cart(p, q))
                => /\ call'.method = "POST"
                   /\ call'.endpoint = CartItemsEndpoint
                   /\ call'.json.product_id = p
                   /\ call'.json.quantity = q
                   /\ nSent' = 1
        /\ HelperReturns
              => /\ ret' = result'
                 /\ call' = call
                 /\ result'.kind = "response" => result'.status = lastOutcome'.status
        /\ (call.op \in HelperOps /\ pc = "awaiting") => call' = call ]_vars

C21_Witness ==
    /\ pc = "idle" /\ call.op = "add_item_to_cart"
    /\ call.method = "POST"
    /\ call.json.quantity = -1
    /\ result.kind = "response" /\ result.status = 200
    /\ result.body # NoBody
    /\ ret = result

(***************************************************************************)
(* C22.  load_test_data keeps no cache between calls: each call reads the  *)
(* file again, so when the file's content changes, or the file appears or  *)
(* disappears, between two calls, the result of the second call reflects   *)
(* the file as it is at the time of the second call.                       *)
(***************************************************************************)
\* the file a call of the loader is about, as it is when the call is made
FileNow == fs[ResolvePath(probe'.file_path)]

C22_LoaderReadsAnew ==
    [][ (probe' # probe /\ probe'.fn = "load_test_data")
          => /\ probe'.found = FileNow
             /\ FileNow = Missing => probe'.out = Returned(EmptyMapping)
             /\ (FileNow.kind = "file" /\ ~FileNow.json)
                   => probe'.out = Returned(EmptyMapping)
             /\ (FileNow.kind = "file" /\ FileNow.json)
                   => probe'.out = Returned(FileNow.doc) ]_vars

C22_Witness ==
    /\ probe.fn = "load_test_data"
    /\ probe.changed
    /\ probe.file_path = None
    /\ fs[DefaultDataPath] = JsonFile(List)
    /\ probe.out = Returned(List)

(***************************************************************************)
(* C23.  validate_test_data returns True exactly when data/test_data.json  *)
(* exists, parses as JSON and contains all three top-level keys base_url,  *)
(* endpoints and valid_users; in every other case it returns False and     *)
(* does not raise.                                                         *)
(***************************************************************************)
\* the file holds a JSON object with every required key at its top level
HasRequiredKeys(file) ==
    /\ file.kind = "file" /\ file.json
    /\ file.doc.kind = "object"
    /\ \A i \in 1..Len(RequiredKeys) : RequiredKeys[i] \in DOMAIN file.doc.fields

C23_ValidateTestDataVerdict ==
    Len(outcomes) >= 6
        => /\ outcomes[6] \in {"True", "False"}
           /\ outcomes[6] = "True" <=> HasRequiredKeys(fs[DefaultDataPath])

(***************************************************************************)
(* C24.  main() runs the seven steps once each in the listed order and     *)
(* does not stop at a failure: a step that returns a false value or raises *)
(* is appended to failed_steps and the next step still runs; the process   *)
(* ends only after the seventh step, and the usage instructions are        *)
(* printed only when failed_steps is empty.                                *)
(***************************************************************************)
\* the step function at position i of `steps` is the one being called
StepCalled(i) ==
    CASE i = 1 -> check_python_version
      [] i = 2 -> \E r \in RunOutcomes : create_virtual_environment(r)
      [] i = 3 -> \E r \in RunOutcomes : install_dependencies(r)
      [] i = 4 -> \E r \in RunOutcomes : create_env_file(r)
      [] i = 5 -> \E r \in RunOutcomes : create_reports_directory(r)
      [] i = 6 -> validate_test_data
      [] i = 7 -> \E r \in RunOutcomes : run_sample_test(r)
      [] OTHER -> FALSE

C24_MainRunsEveryStep ==
    [][ /\ outcomes' # outcomes
            => /\ Len(outcomes') = Len(outcomes) + 1
               /\ Len(outcomes') <= NumSteps
               /\ StepCalled(Len(outcomes'))
               /\ main_pc' = "running"
               /\ failed_steps' =
                      IF outcomes'[Len(outcomes')] \in {"False", "raised"}
                        THEN Append(failed_steps, Steps[Len(outcomes')])
                        ELSE failed_steps
        /\ main_pc' # main_pc /\ main_pc' = "exited"
            => /\ Len(outcomes) = NumSteps
               /\ stdout' # stdout => failed_steps = <<>>
        /\ stdout' # stdout => main_pc' = "exited" ]_vars

C24_Witness ==
    /\ main_pc = "exited"
    /\ Len(outcomes) = NumSteps
    /\ outcomes[2] = "raised" /\ outcomes[3] = "False" /\ outcomes[5] = "True"
    /\ failed_steps[1] = Steps[2] /\ failed_steps[2] = Steps[3]
    /\ stdout = <<>>

(***************************************************************************)
(* C25.  A call of a verb method makes at most RetryTotal + 1 = 4          *)
(* transmission attempts and the answer to the fourth ends it with a       *)
(* response or an exception; an attempt after the first is made only when  *)
(* the attempt before it, of the same call, ended in a status that         *)
(* triggers a retry or in a transport error.  POST is among the retried    *)
(* methods, so one submit_checkout can reach the server more than once.    *)
(***************************************************************************)
\* the attempt just answered ended in a way that can trigger a retry
RetryTrigger(o) ==
    \/ o.kind \in {"connect_error", "read_error"}
    \/ /\ o.kind = "response"
       /\ \/ o.status \in StatusForcelist
          \/ o.retry_after /\ o.status \in RetryAfterStatusCodes

KeepsDefaults(h) ==
    /\ DOMAIN DefaultHeaders \subseteq DOMAIN h
    /\ \A x \in DOMAIN DefaultHeaders : h[x] = DefaultHeaders[x]
    /\ DOMAIN h \subseteq DOMAIN DefaultHeaders \cup {"Authorization"}

C26_DefaultHeadersKept ==
    /\ KeepsDefaults(headers)
    /\ call.method # NoCall.method => KeepsDefaults(call.headers)

C26_Witness ==
    /\ pc = "idle"
    /\ call.op = "logout" /\ result.kind = "response"
    /\ HasAuthorization(call.headers)
    /\ ~HasAuthorization(headers)
    /\ lastTokenOp = "clear"
    /\ headers = DefaultHeaders

(***************************************************************************)
(* C27.  A request is sent with the timeout the caller passed when one was *)
(* passed, and with the timeout of the client when none was passed (the    *)
(* helpers pass none); every attempt of the call carries the same timeout, *)
(* and no step changes the timeout of the client.                          *)
(***************************************************************************)
\* the call that starts is the verb method called with these arguments
VerbCalled(e, kw) ==
    get(e, kw) \/ post(e, kw) \/ put(e, kw) \/ delete(e, kw) \/ patch(e, kw)

C27_TimeoutDefault ==
    [][ /\ timeout' = timeout
        /\ (RequestStarts /\ call'.op \in VerbOps)
              => \A e \in Endpoints, kw \in KwargsInputs :
                   VerbCalled(e, kw)
                     => /\ "timeout" \in DOMAIN kw => call'.timeout = kw["timeout"]
                        /\ "timeout" \notin DOMAIN kw => call'.timeout = timeout
        /\ (RequestStarts /\ call'.op \notin VerbOps) => call'.timeout = timeout
        /\ pc = "awaiting" => call'.timeout = call.timeout ]_vars

C27_Witness ==
    /\ pc = "idle"
    /\ call.op = "post" /\ result.kind = "response"
    /\ call.timeout = 7
    /\ timeout = DefaultTimeout

(***************************************************************************)
(* C28.  clear_auth_token always ends with no token and no Authorization   *)
(* header; called without a token, or right after another                  *)
(* clear_auth_token, it changes neither and has no raising path.           *)
(* set_auth_token(t2), also right after set_auth_token(t1), leaves t2 as   *)
(* auth_token and "Bearer t2" as the one Authorization header.             *)
(***************************************************************************)
TokenLess(tok, h) == tok = None /\ ~HasAuthorization(h)

C28_TokenOpsIdempotent ==
    [][ /\ clear_auth_token
              => /\ TokenLess(auth_token', headers')
                 /\ pc' = "idle"
                 /\ (TokenLess(auth_token, headers) \/ lastTokenOp = "clear")
                       => auth_token' = auth_token /\ headers' = headers
        /\ \A t2 \in TokenValues :
              (pc = "idle" /\ set_auth_token(t2))
                => /\ auth_token' = t2
                   /\ HasAuthorization(headers')
                   /\ headers'["Authorization"] = <<"Bearer", Format(t2)>>
                   /\ \A x \in DOMAIN headers' \ {"Authorization"} :
                         x \in DOMAIN headers /\ headers'[x] = headers[x] ]_vars

C28_Witness ==
    /\ call.op = "set_auth_token"
    /\ lastTokenOp = "set"
    /\ auth_token = Str(2)
    /\ headers["Authorization"] = <<"Bearer", "tokB">>

(***************************************************************************)
(* C29.  No setup step overwrites what exists.  create_env_file returns    *)
(* True and leaves the files alone when .env exists, and when .env does    *)
(* not exist and .env.template is missing; create_virtual_environment      *)
(* returns True and leaves the files alone when venv exists, whatever the  *)
(* venv command would have done, because the command is not run.           *)
(***************************************************************************)
\* the step function at position i of `steps` returns in this step
StepReturns(i) == main_pc = "running" /\ Len(outcomes) = i - 1 /\ outcomes' # outcomes

PyStr(c) == [type |-> "str", chars |-> c, n |-> 0]
PyInt(k) == [type |-> "int", chars |-> <<>>, n |-> k]
PyNone == [type |-> "NoneType", chars |-> <<>>, n |-> 0]

DigitChars == <<"0", "1", "2", "3", "4", "5", "6", "7", "8", "9">>

\* the decimal digits of a natural number
RECURSIVE Digits(_)
Digits(k) ==
    IF k < 10 THEN <<DigitChars[k + 1]>>
    ELSE Digits(k \div 10) \o <<DigitChars[(k % 10) + 1]>>

\* str(value), as a sequence of characters
StrOf(v) ==
    CASE v.type = "str" -> v.chars
      [] v.type = "int" -> IF v.n < 0 THEN <<"-">> \o Digits(0 - v.n) ELSE Digits(v.n)
      [] v.type = "NoneType" -> <<"N", "o", "n", "e">>

\* '*' * k
Stars(k) == [i \in 1..k |-> "*"]

\* a variant that masks with a fixed number of stars
MaskOf_Fixed(v) == PyStr(Stars(3))

\* '*' * len(str(masked_data[field]))
MaskOf(v) == PyStr(Stars(Len(StrOf(v))))

\* the argument sensitive_fields: left out (None), or a list of names
NoFields == [given |-> FALSE, list |-> <<>>]
Fields(l) == [given |-> TRUE, list |-> l]

DefaultSensitiveFields == <<"password", "token", "card_number", "cvv">>

\* if sensitive_fields is None: sensitive_fields = [...]
SensitiveFields(sf) == IF sf.given THEN sf.list ELSE DefaultSensitiveFields

\* a variant that hands back the mapping itself
DictCopy_Same(d) == [obj |-> "same", items |-> d]

\* data.copy(): another mapping object with the same items
DictCopy(d) == [obj |-> "new", items |-> d]

\* for field in sensitive_fields: if field in masked_data: masked_data[field] = ...
RECURSIVE MaskFields(_, _)
MaskFields(fields, d) ==
    IF fields = <<>> THEN d
    ELSE MaskFields(Tail(fields),
                    IF fields[1] \in DOMAIN d
                      THEN [d EXCEPT ![fields[1]] = MaskOf(d[fields[1]])]
                      ELSE d)

\* the mapping returned, and the mapping the caller passed as it is afterwards
MaskSensitiveData(data, sf) ==
    LET copy == DictCopy(data)
        masked == MaskFields(SensitiveFields(sf), copy.items)
    IN  [out |-> masked,
         data |-> IF copy.obj = "same" THEN masked ELSE data]

MaskKeys == {"password", "cvv", "email"}
MaskValues ==
    { PyStr(<<"s", "3", "c">>), PyStr(<<>>), PyStr(<<"*", "*">>),
      PyInt(123), PyInt(-5), PyNone }
MaskData == UNION { [K -> MaskValues] : K \in SUBSET MaskKeys }
MaskFieldLists ==
    { NoFields, Fields(<<>>), Fields(<<"email">>),
      Fields(<<"email", "password", "email">>) }

InitMask ==
    /\ ClientInit
    /\ \E d \in MaskData, sf \in MaskFieldLists :
          probe = [fn |-> "none", arg |-> d, data |-> d,
                   sensitive_fields |-> sf, out |-> d]
    /\ fs = NoFs
    /\ SetupIdle
    /\ HeapIdle

mask_sensitive_data ==
    /\ probe.fn = "none"
    /\ probe' = [probe EXCEPT
                   !.fn = "mask_sensitive_data",
                   !.data = MaskSensitiveData(probe.data, probe.sensitive_fields).data,
                   !.out = MaskSensitiveData(probe.data, probe.sensitive_fields).out]
    /\ UNCHANGED <<clientVars, fs, setupVars, heapVars>>

NextMask == mask_sensitive_data

SpecMask == InitMask /\ [][NextMask]_vars

(***************************************************************************)
(* C30.  mask_sensitive_data leaves the mapping it was given as it was.    *)
(* The mapping it returns has the keys of the input and no other; a key    *)
(* named in sensitive_fields (password, token, card_number, cvv when the   *)
(* argument is left out) maps to a string of '*' as long as str() of the   *)
(* original value, and every other key maps to its original value.         *)
(***************************************************************************)
\* the names a call masks
NamedSensitive(sf) ==
    IF sf.given THEN {sf.list[i] : i \in 1..Len(sf.list)}
    ELSE {"password", "token", "card_number", "cvv"}

\* the value is a Python string of k stars
IsStars(v, k) ==
    v.type = "str" /\ Len(v.chars) = k /\ \A i \in 1..k : v.chars[i] = "*"

C30_MaskSensitiveData ==
    probe.fn = "mask_sensitive_data"
        => /\ probe.data = probe.arg
           /\ DOMAIN probe.out = DOMAIN probe.arg
           /\ \A k \in DOMAIN probe.arg :
                 IF k \in NamedSensitive(probe.sensitive_fields)
                   THEN IsStars(probe.out[k], Len(StrOf(probe.arg[k])))
                   ELSE probe.out[k] = probe.arg[k]

C30_Witness ==
    /\ probe.fn = "mask_sensitive_data"
    /\ ~probe.sensitive_fields.given
    /\ DOMAIN probe.arg = MaskKeys
    /\ probe.arg["password"] = PyInt(-5) /\ probe.out["password"] = PyStr(<<"*", "*">>)
    /\ probe.arg["cvv"] = PyNone /\ probe.out["cvv"] = PyStr(<<"*", "*", "*", "*">>)
    /\ probe.arg["email"] = PyStr(<<"s", "3", "c">>) /\ probe.out["email"] = probe.arg["email"]
    /\ probe.data = probe.arg

====
